---------------------------- MODULE Spec2Model ----------------------------
(***************************************************************************)
(* A model of two pieces of fundamental-ngx:                               *)
(*   - MobileModeBase: the resolution of the mobile-mode configuration in  *)
(*     the constructor (lookup by target, fallback, merge, failure);       *)
(*   - TextAreaComponent: the character counter, the excess truncation on  *)
(*     Delete/Backspace, the reported state, the auto-grow arithmetic and  *)
(*     the paste flag with its pending clipboard reads.                    *)
(* JavaScript values are encoded so that values of different kinds can be *)
(* compared: strings are sequences of characters inside a tagged record,   *)
(* objects are functions from their own keys to values, `undefined` for a  *)
(* number is the constant UNDEF.                                           *)
(***************************************************************************)
EXTENDS Integers, Sequences, FiniteSets, TLC

VARIABLES
    \* ---- MobileModeBase ----
    mobileModes,        \* the injected MOBILE_MODE_CONFIG list (may be null)
    target,             \* MobileModeBase.target
    componentConfig,    \* _component.mobileConfig
    mobileConfig,       \* MobileModeBase.mobileConfig
    dialogConfig,       \* MobileModeBase.dialogConfig
    mpc,                \* position of the constructor: "new", "constructed", "threw"
    mError,             \* message of the error the constructor threw
    \* ---- TextAreaComponent: inputs, bound before ngOnInit ----
    wrapType, maxLength, showExceededText, growing, height, growingMaxLines,
    status,             \* BaseInput.status, the parent form field's status
    computed,           \* window.getComputedStyle(textareaElement.nativeElement)
    setValueDispatches, \* whether BaseInput.setValue stores through this.writeValue
    clipboardData,      \* whether window['clipboardData'] exists (Internet Explorer)
    \* ---- TextAreaComponent: fields ----
    stateType, value, hasTextExceeded, exceededCharCount, counterExcessOrRemaining,
    isValueCustomSet, textAreaCharCount, isPasted,
    \* ---- textareaElement.nativeElement ----
    selection,          \* focus() and setSelectionRange()
    styleHeight, styleMaxHeight, scrollHeight,
    \* ---- navigator.clipboard ----
    pendingReads,       \* readText() promises whose then-callback has not run yet
    \* ---- control ----
    baseInited,         \* BaseInput.ngOnInit has run
    tpc,                \* lifecycle: "constructed", "init", "viewInit", "threw"
    lastOp              \* the last operation, its argument, what it found and returned

mobileVars == <<mobileModes, target, componentConfig, mobileConfig, dialogConfig, mpc, mError>>

inputVars == <<wrapType, maxLength, showExceededText, growing, height, growingMaxLines,
               status, computed, setValueDispatches, clipboardData>>

fieldVars == <<stateType, value, hasTextExceeded, exceededCharCount, counterExcessOrRemaining,
               isValueCustomSet, textAreaCharCount, isPasted, selection,
               styleHeight, styleMaxHeight, scrollHeight, baseInited, pendingReads>>

controlVars == <<tpc, lastOp>>

textAreaVars == <<inputVars, fieldVars, controlVars>>

vars == <<mobileVars, textAreaVars>>

-----------------------------------------------------------------------------
(* Bounds *)

\* longest injected list
MaxModes == 2

\* longest text written to the text area
MaxLen == 2

\* largest maxLength input
MaxMaxLength == 2

\* most clipboard reads pending at once
MaxPending == 2

-----------------------------------------------------------------------------
(* JavaScript objects: a function from the object's own keys to values.    *)

\* `undefined` where an object is expected
UndefinedObj == [undefined |-> TRUE]

\* the empty object literal {}
EmptyObj == [k \in {} |-> TRUE]

IsObj(o) == o # UndefinedObj

\* { ...a, ...b }: own keys of both, b's value where both define the key
Spread2(a, b) == [k \in DOMAIN a \cup DOMAIN b |-> IF k \in DOMAIN b THEN b[k] ELSE a[k]]

-----------------------------------------------------------------------------
(* MobileModeBase *)

MOBILE_CONFIG_ERROR == "MOBILE_CONFIG_ERROR"

MobileModeControl == {"MENU", "SELECT", "COMBOBOX", "MULTI_INPUT"}

\* the targets the checked instances use
Targets == {"MENU", "SELECT"}

ConfigValues == {"v1", "v2"}

\* keys of MobileModeConfig other than dialogConfig, and keys of DialogConfig
TopKeys == {"title"}
DialogKeys == {"width"}

PartialFns(keys, vals) == UNION {[s -> vals] : s \in SUBSET keys}

DialogConfigs == PartialFns(DialogKeys, ConfigValues)

\* a MobileModeConfig object: some of the top keys, and possibly dialogConfig
MobileModeConfigs ==
    PartialFns(TopKeys, ConfigValues) \cup
    {Spread2(t, [dialogConfig |-> d]) : t \in PartialFns(TopKeys, ConfigValues), d \in DialogConfigs}

\* a MobileModeConfigToken: { target, config }
MobileModeConfigTokens == [target : Targets, config : MobileModeConfigs \cup {UndefinedObj}]

SeqsUpTo(S, n) == UNION {[1..k -> S] : k \in 0..n}

\* config.dialogConfig, `undefined` when the key is absent
DialogOf(config) == IF "dialogConfig" \in DOMAIN config THEN config["dialogConfig"] ELSE UndefinedObj

\* ...(x && x): spreading undefined adds no key
SpreadOrNothing(o) == IF IsObj(o) THEN o ELSE EmptyObj

\* a plausible slip: the nested object of config2 replaces config1's
_mergeConfigsShallow(config1, config2) ==
    Spread2(Spread2(config1, config2),
            [dialogConfig |-> SpreadOrNothing(IF IsObj(DialogOf(config2)) THEN DialogOf(config2) ELSE DialogOf(config1))])

_mergeConfigs(config1, config2) ==
    Spread2(Spread2(config1, config2),
            [dialogConfig |-> Spread2(SpreadOrNothing(DialogOf(config1)), SpreadOrNothing(DialogOf(config2)))])

\* this._mobileModes || []
ModesOrEmpty(modes) == IF modes.present THEN modes.list ELSE <<>>

\* a plausible slip: the last matching element instead of the first
FindModeLast(list, t) ==
    IF \E i \in 1..Len(list) : list[i].target = t
    THEN list[CHOOSE i \in 1..Len(list) :
                /\ list[i].target = t
                /\ \A j \in (i + 1)..Len(list) : list[j].target # t]
    ELSE UndefinedObj

\* Array.prototype.find: the first element whose target matches, else undefined
FindMode(list, t) ==
    IF \E i \in 1..Len(list) : list[i].target = t
    THEN list[CHOOSE i \in 1..Len(list) :
                /\ list[i].target = t
                /\ \A j \in 1..(i - 1) : list[j].target # t]
    ELSE UndefinedObj

InjectedConfig(modes, t) == FindMode(ModesOrEmpty(modes), t)

\* a plausible slip: && instead of ||, a missing half already throws
MobileConfigThrowsEither(modes, t, compConfig) ==
    ~ (IsObj(InjectedConfig(modes, t)) /\ IsObj(compConfig))

\* _getMobileModeConfig throws
MobileConfigThrows(modes, t, compConfig) ==
    ~ (IsObj(InjectedConfig(modes, t)) \/ IsObj(compConfig))

\* x || {}
ObjOrEmpty(o) == IF IsObj(o) THEN o ELSE EmptyObj

\* the value _getMobileModeConfig returns when it does not throw
_getMobileModeConfig(modes, t, compConfig) ==
    LET injectedConfig == InjectedConfig(modes, t) IN
    IF IsObj(injectedConfig)
    THEN _mergeConfigs(ObjOrEmpty(injectedConfig.config), ObjOrEmpty(compConfig))
    ELSE compConfig

MobileInit ==
    /\ mobileModes \in [present : {TRUE}, list : SeqsUpTo(MobileModeConfigTokens, MaxModes)]
                       \cup {[present |-> FALSE, list |-> <<>>]}
    /\ target \in Targets
    /\ componentConfig \in MobileModeConfigs \cup {UndefinedObj}
    /\ mobileConfig = UndefinedObj
    /\ dialogConfig = UndefinedObj
    /\ mpc = "new"
    /\ mError = ""

\* new MobileModeBase(...): the constructor body
MobileModeBaseConstructor ==
    /\ mpc = "new"
    /\ IF MobileConfigThrows(mobileModes, target, componentConfig)
       THEN /\ mpc' = "threw"
            /\ mError' = MOBILE_CONFIG_ERROR
            /\ UNCHANGED <<mobileConfig, dialogConfig>>
       ELSE /\ mobileConfig' = _getMobileModeConfig(mobileModes, target, componentConfig)
            /\ dialogConfig' = DialogOf(mobileConfig')
            /\ mpc' = "constructed"
            /\ UNCHANGED mError
    /\ UNCHANGED <<mobileModes, target, componentConfig>>

-----------------------------------------------------------------------------
(* JavaScript values of the text area *)

\* `undefined` (an unset numeric input) and NaN (parseInt of a non-number)
UNDEF == 0 - 1
NaN == 0 - 2

\* if (n): a number that is neither undefined, NaN nor 0
TruthyNum(n) == n # UNDEF /\ n # NaN /\ n # 0

\* a > b on numbers: false when either side is undefined or NaN
Gt(a, b) == a \notin {UNDEF, NaN} /\ b \notin {UNDEF, NaN} /\ a > b

\* a <= b on numbers: false when either side is undefined or NaN
Le(a, b) == a \notin {UNDEF, NaN} /\ b \notin {UNDEF, NaN} /\ a <= b

Str(s) == [kind |-> "str", s |-> s]
Undefined == [kind |-> "undefined", s |-> <<>>]
Null == [kind |-> "null", s |-> <<>>]

\* if (value): a non-empty string
Truthy(v) == v.kind = "str" /\ Len(v.s) > 0

Chars == {"a", "b"}

Strings == {Str(q) : q \in SeqsUpTo(Chars, MaxLen)}

\* what the form layer or the application may write
JsValues == Strings \cup {Undefined, Null}

Min(a, b) == IF a <= b THEN a ELSE b

\* a plausible slip: the last n characters are kept
SubstringFrom0Tail(v, n) ==
    IF n = UNDEF THEN v
    ELSE IF n = NaN \/ n <= 0 THEN Str(<<>>)
    ELSE Str(SubSeq(v.s, Len(v.s) - Min(n, Len(v.s)) + 1, Len(v.s)))

\* v.substring(0, n)
SubstringFrom0(v, n) ==
    IF n = UNDEF THEN v
    ELSE IF n = NaN \/ n <= 0 THEN Str(<<>>)
    ELSE Str(SubSeq(v.s, 1, Min(n, Len(v.s))))

\* CSS lengths: a number and a unit; the empty string of an unset style property
CssLen(n, u) == [num |-> n, unit |-> u]
Px(n) == CssLen(n, "px")
CssUnset == CssLen(0, "")

\* parseInt(len, 10): the leading digits, NaN when there are none
ParseInt(len) == IF len.unit = "" THEN NaN ELSE len.num

\* if (this.height): a non-empty string
TruthyLen(len) == len # CssUnset

\* pixels of one em (the font size the browser resolves em against)
EmPx == 16

\* the height the browser renders for a length
RenderedPx(len) == IF len.unit = "em" THEN len.num * EmPx ELSE len.num

-----------------------------------------------------------------------------
(* TextAreaComponent *)

VALID_WRAP_TYPES == {"hard", "soft", "off"}

DELETE == 46
BACKSPACE == 8

remainingText == "remaining"
excessText == "excess"

\* the mutable fields as one object, so that a method is a function of `this`
This ==
    [stateType |-> stateType, value |-> value, hasTextExceeded |-> hasTextExceeded,
     exceededCharCount |-> exceededCharCount,
     counterExcessOrRemaining |-> counterExcessOrRemaining,
     isValueCustomSet |-> isValueCustomSet, textAreaCharCount |-> textAreaCharCount,
     isPasted |-> isPasted, selection |-> selection, styleHeight |-> styleHeight,
     styleMaxHeight |-> styleMaxHeight, scrollHeight |-> scrollHeight,
     baseInited |-> baseInited, pendingReads |-> pendingReads]

\* the fields after a method returned `t`
Becomes(t) ==
    /\ stateType' = t.stateType
    /\ value' = t.value
    /\ hasTextExceeded' = t.hasTextExceeded
    /\ exceededCharCount' = t.exceededCharCount
    /\ counterExcessOrRemaining' = t.counterExcessOrRemaining
    /\ isValueCustomSet' = t.isValueCustomSet
    /\ textAreaCharCount' = t.textAreaCharCount
    /\ isPasted' = t.isPasted
    /\ selection' = t.selection
    /\ styleHeight' = t.styleHeight
    /\ styleMaxHeight' = t.styleMaxHeight
    /\ scrollHeight' = t.scrollHeight
    /\ baseInited' = t.baseInited
    /\ pendingReads' = t.pendingReads

\* this.maxLength ? this.maxLength : 0
MaxLengthOr0 == IF TruthyNum(maxLength) THEN maxLength ELSE 0

\* a plausible slip: the excess branch computes maxLength - count
validateLengthOnCustomSetSigned(t) ==
    [t EXCEPT !.counterExcessOrRemaining =
                    IF Gt(t.textAreaCharCount, maxLength) THEN excessText ELSE remainingText,
              !.exceededCharCount = maxLength - t.textAreaCharCount,
              !.isPasted = FALSE]

validateLengthOnCustomSet(t) ==
    IF Gt(t.textAreaCharCount, maxLength)
    THEN [t EXCEPT !.selection =
                        IF t.isPasted
                        THEN [focused |-> TRUE, from |-> maxLength, to |-> t.textAreaCharCount]
                        ELSE t.selection,
                   !.counterExcessOrRemaining = excessText,
                   !.exceededCharCount = t.textAreaCharCount - maxLength,
                   !.isPasted = FALSE]
    ELSE [t EXCEPT !.counterExcessOrRemaining = remainingText,
                   !.exceededCharCount = maxLength - t.textAreaCharCount,
                   !.isPasted = FALSE]

updateCounterInteractions(t) ==
    IF Truthy(t.value)
    THEN LET t1 == [t EXCEPT !.textAreaCharCount = Len(t.value.s)] IN
         IF TruthyNum(maxLength) THEN validateLengthOnCustomSet(t1) ELSE t1
    ELSE t

\* BaseInput.writeValue: stores the value
BaseInputWriteValue(t, v) == [t EXCEPT !.value = v]

\* BaseInput.getValue
BaseInputGetValue(t) == t.value

writeValue(t, v) ==
    IF Truthy(v) THEN updateCounterInteractions(BaseInputWriteValue(t, v)) ELSE t

\* BaseInput.setValue: stores a value that differs from the held one, either
\* through this.writeValue (the override above) or directly
BaseInputSetValue(t, v) ==
    IF v # t.value
    THEN IF setValueDispatches THEN writeValue(t, v) ELSE [t EXCEPT !.value = v]
    ELSE t

\* set value(value)
SetValue(t, v) ==
    IF Truthy(v)
    THEN BaseInputSetValue(t, v)
    ELSE BaseInputWriteValue([t EXCEPT !.exceededCharCount = MaxLengthOr0], Str(<<>>))

\* nativeElement.value, which the template binds to the value
ElementValue(t) == IF Truthy(t.value) THEN t.value ELSE Str(<<>>)

\* nativeElement.scrollHeight once style.height is 'inherit': the browser lays
\* the content out again; here every character takes a row of its own
LayoutScrollHeight(t) ==
    computed.lineHeight * (IF Len(ElementValue(t).s) > 0 THEN Len(ElementValue(t).s) ELSE 1)

\* border-top-width + scrollHeight + border-bottom-width, for a scroll height sh
_getTextareaTotalHeight(sh) == computed.borderTop + sh + computed.borderBottom

getTextareaLineHeight == computed.lineHeight

autoGrowTextArea(t) ==
    IF growing
    THEN LET textareaTotalHeight == _getTextareaTotalHeight(LayoutScrollHeight(t))
             maxHeight == ParseInt(t.styleMaxHeight)
         IN  [t EXCEPT !.scrollHeight = LayoutScrollHeight(t),
                       !.styleHeight =
                            IF TruthyNum(maxHeight)
                            THEN IF Le(textareaTotalHeight, maxHeight)
                                 THEN Px(textareaTotalHeight)
                                 ELSE IF TruthyLen(height) THEN height ELSE Px(maxHeight)
                            ELSE Px(textareaTotalHeight)]
    ELSE t

\* called from ngAfterViewInit, when textareaElement is resolved
_setMaxHeight(t) ==
    IF growing
    THEN LET t1 == IF TruthyNum(growingMaxLines)
                   THEN [t EXCEPT !.styleMaxHeight = Px(growingMaxLines * getTextareaLineHeight)]
                   ELSE t
         IN  IF TruthyLen(height) THEN [t1 EXCEPT !.styleMaxHeight = height] ELSE t1
    ELSE IF TruthyLen(height) THEN [t EXCEPT !.styleHeight = height] ELSE t

IsDeleteKey(keyCode) == keyCode = DELETE \/ keyCode = BACKSPACE

handleBackPress(t, keyCode) ==
    LET t1 == IF growing
              THEN [autoGrowTextArea(t) EXCEPT !.isValueCustomSet = FALSE]
              ELSE t
    IN  IF ~ showExceededText /\ IsDeleteKey(keyCode) /\ Truthy(t1.value)
        THEN LET t2 == [t1 EXCEPT !.textAreaCharCount = Len(t1.value.s)] IN
             IF Gt(t2.textAreaCharCount, maxLength)
             THEN [SetValue(t2, SubstringFrom0(t2.value, maxLength))
                        EXCEPT !.isValueCustomSet = FALSE]
             ELSE t2
        ELSE t1

\* undefined while there is neither an element nor a value
_getContentLength(t) ==
    IF Truthy(t.value) THEN Len(t.value.s)
    ELSE IF tpc = "viewInit" THEN Len(ElementValue(t).s)
    ELSE UNDEF

\* this._getContentLength() > this.maxLength
ContentExceeds(t) == Gt(_getContentLength(t), maxLength)

\* the value getUpdatedState returns
getUpdatedStateResult(t) == IF ContentExceeds(t) THEN t.stateType ELSE status

\* the fields getUpdatedState leaves
getUpdatedState(t) ==
    IF ContentExceeds(t)
    THEN [t EXCEPT !.hasTextExceeded = TRUE, !.counterExcessOrRemaining = excessText]
    ELSE [t EXCEPT !.hasTextExceeded = FALSE, !.counterExcessOrRemaining = remainingText]

\* a plausible slip: the check is !== -1
WrapTypeUnsupportedInverted(w) == w \in {"", "undefined"} \/ w \in VALID_WRAP_TYPES

\* !this.wrapType || VALID_WRAP_TYPES.indexOf(this.wrapType) === -1
WrapTypeUnsupported(w) == w \in {"", "undefined"} \/ w \notin VALID_WRAP_TYPES

\* BaseInput.ngOnInit
BaseInputNgOnInit(t) == [t EXCEPT !.baseInited = TRUE]

\* ngOnInit past the wrap type check
ngOnInit(t) ==
    BaseInputNgOnInit(
        IF ~ Truthy(BaseInputGetValue(t))
        THEN [t EXCEPT !.exceededCharCount = MaxLengthOr0]
        ELSE [t EXCEPT !.isValueCustomSet = TRUE])

ngAfterViewInit(t) ==
    LET t1 == _setMaxHeight(t) IN
    IF ~ showExceededText THEN [t1 EXCEPT !.stateType = "null"] ELSE t1

ngAfterViewChecked(t) ==
    IF Truthy(t.value) /\ t.isValueCustomSet THEN autoGrowTextArea(t) ELSE t

\* the paste handler: raises the flag, then updates the counter at once where
\* window['clipboardData'] exists and otherwise leaves a clipboard read pending
handlePasteInteraction(t) ==
    LET t1 == [t EXCEPT !.isPasted = TRUE] IN
    IF clipboardData
    THEN updateCounterInteractions(t1)
    ELSE [t1 EXCEPT !.pendingReads = @ + 1]

\* the then-callback of one navigator.clipboard.readText() promise
readTextThen(t) == updateCounterInteractions([t EXCEPT !.pendingReads = @ - 1])

\* the operation that just ran: its name, its argument, the key of a keyup,
\* the value and element height it found, and what it returned
Op(name, arg, keyCode, valueBefore, heightBefore, result) ==
    [op |-> name, arg |-> arg, key |-> keyCode, valueBefore |-> valueBefore,
     heightBefore |-> heightBefore, result |-> result]

NoOp == Op("none", Undefined, 0, Undefined, CssUnset, "")

\* the fields of a freshly constructed component
TextAreaConstructed ==
    /\ value = Undefined
    /\ hasTextExceeded = FALSE
    /\ exceededCharCount = 0
    /\ counterExcessOrRemaining = remainingText
    /\ isValueCustomSet = FALSE
    /\ textAreaCharCount = 0
    /\ isPasted = FALSE
    /\ selection = [focused |-> FALSE, from |-> 0, to |-> 0]
    /\ styleHeight = CssUnset
    /\ styleMaxHeight = CssUnset
    /\ scrollHeight = 0
    /\ baseInited = FALSE
    /\ pendingReads = 0
    /\ lastOp = NoOp

WrapTypeInputs == VALID_WRAP_TYPES \cup {"", "undefined", "nowrap"}

MaxLengthInputs == {UNDEF} \cup 1..MaxMaxLength

KeyCodes == {DELETE, BACKSPACE, 65}

\* components whose counter and state are exercised
TextAreaInit ==
    /\ wrapType = "soft"
    /\ maxLength \in MaxLengthInputs
    /\ showExceededText \in BOOLEAN
    /\ growing \in BOOLEAN
    /\ height = CssUnset
    /\ growingMaxLines = UNDEF
    /\ status = "error"
    /\ computed = [borderTop |-> 1, borderBottom |-> 1, lineHeight |-> 20]
    /\ setValueDispatches \in BOOLEAN
    /\ clipboardData = FALSE
    /\ stateType = "warning"
    /\ tpc = "constructed"
    /\ TextAreaConstructed

\* components whose initialisation is exercised: every wrap type
WrapInit ==
    /\ wrapType \in WrapTypeInputs
    /\ maxLength \in {UNDEF, 1}
    /\ showExceededText = TRUE
    /\ growing = FALSE
    /\ height = CssUnset
    /\ growingMaxLines = UNDEF
    /\ status = "undefined"
    /\ computed = [borderTop |-> 1, borderBottom |-> 1, lineHeight |-> 20]
    /\ setValueDispatches \in BOOLEAN
    /\ clipboardData = FALSE
    /\ stateType = "warning"
    /\ tpc = "constructed"
    /\ TextAreaConstructed

\* components whose geometry is exercised: heights, line counts and borders vary
GrowInit ==
    /\ wrapType = "soft"
    /\ maxLength = UNDEF
    /\ showExceededText = TRUE
    /\ growing \in BOOLEAN
    /\ height \in {CssUnset, Px(40), CssLen(3, "em")}
    /\ growingMaxLines \in {UNDEF, 1}
    /\ status = "undefined"
    /\ computed \in [borderTop : {0, 1}, borderBottom : {0, 1}, lineHeight : {20}]
    /\ setValueDispatches = FALSE
    /\ clipboardData = FALSE
    /\ stateType = "warning"
    /\ tpc = "constructed"
    /\ TextAreaConstructed

\* components whose paste handling is exercised: with and without
\* window['clipboardData'], with and without a maxLength
PasteInit ==
    /\ wrapType = "soft"
    /\ maxLength \in MaxLengthInputs
    /\ showExceededText = TRUE
    /\ growing = FALSE
    /\ height = CssUnset
    /\ growingMaxLines = UNDEF
    /\ status = "error"
    /\ computed = [borderTop |-> 1, borderBottom |-> 1, lineHeight |-> 20]
    /\ setValueDispatches \in BOOLEAN
    /\ clipboardData \in BOOLEAN
    /\ stateType = "warning"
    /\ tpc = "constructed"
    /\ TextAreaConstructed

\* no text area in this run
TextAreaAbsent ==
    /\ wrapType = "soft"
    /\ maxLength = UNDEF
    /\ showExceededText = FALSE
    /\ growing = FALSE
    /\ height = CssUnset
    /\ growingMaxLines = UNDEF
    /\ status = "undefined"
    /\ computed = [borderTop |-> 0, borderBottom |-> 0, lineHeight |-> 20]
    /\ setValueDispatches = FALSE
    /\ clipboardData = FALSE
    /\ stateType = "warning"
    /\ tpc = "none"
    /\ TextAreaConstructed

\* no mobile control in this run
MobileAbsent ==
    /\ mobileModes = [present |-> FALSE, list |-> <<>>]
    /\ target = "MENU"
    /\ componentConfig = UndefinedObj
    /\ mobileConfig = UndefinedObj
    /\ dialogConfig = UndefinedObj
    /\ mpc = "none"
    /\ mError = ""

NgOnInit ==
    /\ tpc = "constructed"
    /\ IF WrapTypeUnsupported(wrapType)
       THEN tpc' = "threw" /\ UNCHANGED fieldVars
       ELSE tpc' = "init" /\ Becomes(ngOnInit(This))
    /\ lastOp' = Op("ngOnInit", Undefined, 0, Undefined, CssUnset, "")
    /\ UNCHANGED <<inputVars, mobileVars>>

NgAfterViewInit ==
    /\ tpc = "init"
    /\ tpc' = "viewInit"
    /\ Becomes(ngAfterViewInit(This))
    /\ lastOp' = Op("ngAfterViewInit", Undefined, 0, Undefined, CssUnset, "")
    /\ UNCHANGED <<inputVars, mobileVars>>

NgAfterViewChecked ==
    /\ tpc = "viewInit"
    /\ Becomes(ngAfterViewChecked(This))
    /\ lastOp' = Op("ngAfterViewChecked", Undefined, 0, Undefined, styleHeight, "")
    /\ UNCHANGED <<inputVars, tpc, mobileVars>>

\* the form layer writes a value
WriteValue(v) ==
    /\ tpc \in {"init", "viewInit"}
    /\ Becomes(writeValue(This, v))
    /\ lastOp' = Op("writeValue", v, 0, Undefined, CssUnset, "")
    /\ UNCHANGED <<inputVars, tpc, mobileVars>>

\* the application assigns the value input
ValueSetter(v) ==
    /\ tpc \in {"constructed", "init", "viewInit"}
    /\ Becomes(SetValue(This, v))
    /\ lastOp' = Op("setValue", v, 0, Undefined, CssUnset, "")
    /\ UNCHANGED <<inputVars, tpc, mobileVars>>

\* a keyup event on the host element
HandleBackPress(keyCode) ==
    /\ tpc = "viewInit"
    /\ Becomes(handleBackPress(This, keyCode))
    /\ lastOp' = Op("keyup", Undefined, keyCode, value, styleHeight, "")
    /\ UNCHANGED <<inputVars, tpc, mobileVars>>

\* the template asks for the state to render
GetUpdatedState ==
    /\ tpc = "viewInit"
    /\ Becomes(getUpdatedState(This))
    /\ lastOp' = Op("getUpdatedState", Undefined, 0, value, CssUnset, getUpdatedStateResult(This))
    /\ UNCHANGED <<inputVars, tpc, mobileVars>>

\* a paste event on the textarea element
HandlePasteInteraction ==
    /\ tpc = "viewInit"
    /\ clipboardData \/ pendingReads < MaxPending
    /\ Becomes(handlePasteInteraction(This))
    /\ lastOp' = Op("paste", Undefined, 0, Undefined, CssUnset, "")
    /\ UNCHANGED <<inputVars, tpc, mobileVars>>

\* one pending clipboard read resolves and its then-callback runs
ReadTextResolved ==
    /\ pendingReads > 0
    /\ Becomes(readTextThen(This))
    /\ lastOp' = Op("readTextThen", Undefined, 0, Undefined, CssUnset, "")
    /\ UNCHANGED <<inputVars, tpc, mobileVars>>

TextAreaNext ==
    \/ NgOnInit
    \/ NgAfterViewInit
    \/ NgAfterViewChecked
    \/ \E v \in JsValues : WriteValue(v)
    \/ \E v \in JsValues : ValueSetter(v)
    \/ \E k \in KeyCodes : HandleBackPress(k)
    \/ GetUpdatedState

\* the text area's operations together with paste events and clipboard reads
PasteNext ==
    \/ TextAreaNext
    \/ HandlePasteInteraction
    \/ ReadTextResolved

MobileNext == MobileModeBaseConstructor /\ UNCHANGED textAreaVars

\* the initial states of the specifications
InitMobile == MobileInit /\ TextAreaAbsent
Init == TextAreaInit /\ MobileAbsent
InitWrap == WrapInit /\ MobileAbsent
InitGrow == GrowInit /\ MobileAbsent
InitDispatch == TextAreaInit /\ setValueDispatches /\ MobileAbsent
InitPaste == PasteInit /\ MobileAbsent

\* the mobile-mode configuration resolution
SpecMobile == InitMobile /\ [][MobileNext]_vars

\* the text area's counter and state
Spec == Init /\ [][TextAreaNext]_vars

\* the text area's initialisation
SpecWrap == InitWrap /\ [][TextAreaNext]_vars

\* the text area's geometry
SpecGrow == InitGrow /\ [][TextAreaNext]_vars

\* the text area's counter where BaseInput.setValue stores through writeValue,
\* so that every assignment of a non-empty value updates the counter
SpecDispatch == InitDispatch /\ [][TextAreaNext]_vars

\* the text area under paste events, clipboard reads and value writes
SpecPaste == InitPaste /\ [][PasteNext]_vars

-----------------------------------------------------------------------------
(* Claims about MobileModeBase *)

\* the injected list as the claims read it: null/undefined holds no entry
InjectedList == IF mobileModes.present THEN mobileModes.list ELSE <<>>

NoEntryForTarget == \A i \in 1..Len(InjectedList) : InjectedList[i].target # target

\* index of the first entry for the target (0 when there is none)
FirstEntryIndex ==
    IF NoEntryForTarget THEN 0
    ELSE CHOOSE i \in 1..Len(InjectedList) :
            /\ InjectedList[i].target = target
            /\ \A j \in 1..Len(InjectedList) : InjectedList[j].target = target => i <= j

\* C1: construction throws MOBILE_CONFIG_ERROR exactly when the injected list
\* (null included) has no entry for the target and the component has no
\* mobileConfig; in every other case it succeeds and mobileConfig is set.
C1_ThrowsIffNoConfig ==
    mpc # "new" =>
        IF NoEntryForTarget /\ ~ IsObj(componentConfig)
        THEN mpc = "threw" /\ mError = MOBILE_CONFIG_ERROR /\ ~ IsObj(mobileConfig)
        ELSE mpc = "constructed" /\ mError = "" /\ IsObj(mobileConfig)

\* the constructor threw although the list holds entries, all for another target
C1_Witness ==
    /\ mpc = "threw"
    /\ mobileModes.present
    /\ Len(mobileModes.list) > 0

\* the two configurations C2 is about: the first entry's for the target, and the component's
BothConfigsExist ==
    /\ ~ NoEntryForTarget
    /\ IsObj(InjectedList[FirstEntryIndex].config)
    /\ IsObj(componentConfig)

\* C2: with an injected and a component-level configuration, every key both
\* define takes the component-level value, every key only one defines is kept,
\* and the same holds key by key inside dialogConfig.
C2_MergePrefersComponent ==
    (mpc = "constructed" /\ BothConfigsExist) =>
        LET inj == InjectedList[FirstEntryIndex].config
            cmp == componentConfig
            injD == SpreadOrNothing(DialogOf(inj))
            cmpD == SpreadOrNothing(DialogOf(cmp))
        IN  /\ \A k \in (DOMAIN cmp) \ {"dialogConfig"} :
                    k \in DOMAIN mobileConfig /\ mobileConfig[k] = cmp[k]
            /\ \A k \in (DOMAIN inj) \ (DOMAIN cmp \cup {"dialogConfig"}) :
                    k \in DOMAIN mobileConfig /\ mobileConfig[k] = inj[k]
            /\ "dialogConfig" \in DOMAIN mobileConfig
            /\ \A k \in DOMAIN cmpD :
                    k \in DOMAIN mobileConfig["dialogConfig"] /\ mobileConfig["dialogConfig"][k] = cmpD[k]
            /\ \A k \in (DOMAIN injD) \ (DOMAIN cmpD) :
                    k \in DOMAIN mobileConfig["dialogConfig"] /\ mobileConfig["dialogConfig"][k] = injD[k]
            /\ dialogConfig = mobileConfig["dialogConfig"]

\* both define title with different values, and only the injected dialogConfig has width
C2_Witness ==
    /\ mpc = "constructed"
    /\ BothConfigsExist
    /\ "title" \in DOMAIN componentConfig
    /\ "title" \in DOMAIN InjectedList[FirstEntryIndex].config
    /\ InjectedList[FirstEntryIndex].config["title"] # componentConfig["title"]
    /\ "dialogConfig" \in DOMAIN componentConfig
    /\ DOMAIN componentConfig["dialogConfig"] = {}
    /\ "dialogConfig" \in DOMAIN InjectedList[FirstEntryIndex].config
    /\ "width" \in DOMAIN InjectedList[FirstEntryIndex].config["dialogConfig"]

\* C3: without an entry for the target the resolved configuration is exactly
\* the component's; with entries, only the first one for the target counts
\* (the result is the merge of that entry's configuration and the component's).
C3_LookupByTarget ==
    mpc = "constructed" =>
        IF NoEntryForTarget
        THEN mobileConfig = componentConfig
        ELSE mobileConfig = _mergeConfigs(ObjOrEmpty(InjectedList[FirstEntryIndex].config),
                                          ObjOrEmpty(componentConfig))

\* two entries for the target, holding different configurations
C3_Witness ==
    /\ mpc = "constructed"
    /\ Len(InjectedList) = 2
    /\ InjectedList[1].target = target
    /\ InjectedList[2].target = target
    /\ InjectedList[1].config # InjectedList[2].config
    /\ IsObj(InjectedList[1].config)
    /\ IsObj(InjectedList[2].config)

-----------------------------------------------------------------------------
(* Claims about TextAreaComponent *)

\* C4: ngOnInit throws, leaving every field as it found it and BaseInput.ngOnInit
\* not run, whenever wrapType is empty, undefined or none of 'hard', 'soft',
\* 'off'; for each of the three it does not throw and BaseInput.ngOnInit runs.
C4_NgOnInitWrapType ==
    [][(tpc = "constructed" /\ tpc' # "constructed") =>
            IF wrapType \notin {"hard", "soft", "off"}
            THEN tpc' = "threw" /\ UNCHANGED fieldVars /\ ~ baseInited'
            ELSE tpc' = "init" /\ baseInited']_vars

\* ngOnInit threw on an unknown wrap type, and the counter was not set to maxLength
C4_Witness ==
    /\ tpc = "threw"
    /\ wrapType = "nowrap"
    /\ maxLength = 1
    /\ lastOp.op = "ngOnInit"
    /\ exceededCharCount = 0
    /\ ~ baseInited

\* C5: after writeValue(v) with a non-empty v and maxLength M > 0 the counter
\* reads 'excess' and length(v) - M when length(v) > M, 'remaining' and
\* M - length(v) otherwise; the count is never negative.
C5_CounterAfterWriteValue ==
    (lastOp.op = "writeValue" /\ Truthy(lastOp.arg) /\ maxLength # UNDEF /\ maxLength > 0) =>
        /\ IF Len(lastOp.arg.s) > maxLength
           THEN /\ counterExcessOrRemaining = "excess"
                /\ exceededCharCount = Len(lastOp.arg.s) - maxLength
           ELSE /\ counterExcessOrRemaining = "remaining"
                /\ exceededCharCount = maxLength - Len(lastOp.arg.s)
        /\ exceededCharCount >= 0

\* a text longer than maxLength was written
C5_Witness ==
    /\ lastOp.op = "writeValue"
    /\ Truthy(lastOp.arg)
    /\ maxLength # UNDEF
    /\ maxLength > 0
    /\ Len(lastOp.arg.s) > maxLength
    /\ counterExcessOrRemaining = "excess"

\* the length of the current value, 0 for an empty, null or undefined one
CurrentLength == IF value.kind = "str" THEN Len(value.s) ELSE 0

\* C6: with maxLength M set, after any writeValue, value assignment or
\* Delete/Backspace keyup of an initialised component the tracked character count is the length of the
\* current value, the counter reads 'excess' iff that length exceeds M, and
\* exceededCharCount is the distance between that length and M.
C6_CounterReflectsValue ==
    (/\ TruthyNum(maxLength)
     /\ tpc \in {"init", "viewInit"}
     /\ \/ lastOp.op \in {"writeValue", "setValue"}
        \/ lastOp.op = "keyup" /\ lastOp.key \in {DELETE, BACKSPACE}) =>
        /\ textAreaCharCount = CurrentLength
        /\ (counterExcessOrRemaining = "excess") <=> (CurrentLength > maxLength)
        /\ exceededCharCount = IF CurrentLength > maxLength
                               THEN CurrentLength - maxLength
                               ELSE maxLength - CurrentLength

\* C7: after writeValue(v) the value read back is v, and is empty when v is
\* the empty string, null or undefined, whatever was held before.
C7_WriteValueReadBack ==
    lastOp.op = "writeValue" =>
        IF Truthy(lastOp.arg) THEN value = lastOp.arg ELSE ~ Truthy(value)

\* the keyup is one that truncates: showExceededText off, Delete or Backspace,
\* maxLength set and the value longer than it
KeyupTruncates ==
    /\ ~ showExceededText
    /\ lastOp.key \in {46, 8}
    /\ maxLength # UNDEF
    /\ lastOp.valueBefore.kind = "str"
    /\ Len(lastOp.valueBefore.s) > maxLength

C9_StateOnlyWhenShown ==
    (tpc = "viewInit" /\ lastOp.op = "getUpdatedState") =>
        LET exceeds == maxLength # UNDEF /\ CurrentLength > maxLength IN
        IF ~ showExceededText
        THEN lastOp.result = status /\ ~ hasTextExceeded
        ELSE /\ hasTextExceeded = exceeds
             /\ lastOp.result = IF exceeds THEN stateType ELSE status

\* the max height of C10 in pixels: `height` when given, else growingMaxLines
\* times the line height; 0 when neither is given
MaxHeightGiven == TruthyLen(height) \/ TruthyNum(growingMaxLines)
MaxHeightPx ==
    IF TruthyLen(height) THEN RenderedPx(height)
    ELSE IF TruthyNum(growingMaxLines) THEN growingMaxLines * computed.lineHeight
    ELSE 0

\* autoGrowTextArea ran in the last operation
AutoGrowRan ==
    \/ lastOp.op = "keyup"
    \/ lastOp.op = "ngAfterViewChecked" /\ Truthy(value) /\ isValueCustomSet

\* C10: in growing mode autoGrowTextArea leaves the element as high as the
\* content (scroll height plus both borders), capped by the max height when one
\* is given; when growing is off it leaves the height unchanged.
C10_AutoGrowHeight ==
    AutoGrowRan =>
        LET total == scrollHeight + computed.borderTop + computed.borderBottom IN
        IF growing
        THEN RenderedPx(styleHeight) =
                IF MaxHeightGiven THEN Min(total, MaxHeightPx) ELSE total
        ELSE styleHeight = lastOp.heightBefore

\* C10 for components whose `height`, when given, is in pixels
C10_AutoGrowHeightPx == height.unit \in {"", "px"} => C10_AutoGrowHeight

-----------------------------------------------------------------------------
(* Claims about the paste flag *)

\* a step of writeValue leaves the element's focus and selection alone
WriteValueNeverSelects == lastOp'.op = "writeValue" => selection' = selection

\* after a step that leaves no clipboard read pending the paste flag is false
FlagFalseWhenHandled == pendingReads' = 0 => ~ isPasted'

\* C11: in every interleaving of paste events, clipboard-read resolutions and
\* writeValue calls, a writeValue never focuses the element or selects the
\* excess range [maxLength, character count), and the paste flag is false
\* whenever no clipboard read is pending, whatever the value and maxLength are.
C11_PasteFlagConsumedByItsPaste ==
    [][WriteValueNeverSelects /\ FlagFalseWhenHandled]_vars

=============================================================================
